---- MODULE Spec2Model ----
(***************************************************************************)
(* Model of the crypto-key-manager library: the BIP39 mnemonic codec       *)
(* (src/src/mnemonic.rs), the BIP39 seed derivation (src/src/seed.rs) and  *)
(* the BIP32 extended-key tree (src/src/hd_key.rs) with its xprv text, and *)
(* the hex conversions (src/src/utils.rs).                                 *)
(*                                                                         *)
(* Strings and byte strings are sequences of byte values 0..255 (Rust      *)
(* &str/&[u8]; the model's alphabet is ASCII).  A u32 is its 4-byte big-   *)
(* endian form, a BigUint is a big-endian byte sequence without leading    *)
(* zeros, so every width of the source is kept.  The hash primitives of    *)
(* the external crates (SHA-256, HMAC-SHA-512, PBKDF2, secp256k1,          *)
(* RIPEMD-160) are deterministic functions of their inputs whose values    *)
(* range over edge cases of the scalar range (0, 1, n-1, n, n+1, 2^256-1). *)
(***************************************************************************)
EXTENDS Integers, Sequences, FiniteSets, TLC

VARIABLES build, seed, mres, key, steps, path, res, rebases, xprv, buffer, b58,
          entropy, phrase, decoded, word_count, urandom, validated,
          mnemonic, passphrase, sres, passphrase2, sres2,
          raw, hex, hres, rehex

vars ==
  <<build, seed, mres, key, steps, path, res, rebases, xprv, buffer, b58,
    entropy, phrase, decoded, word_count, urandom, validated,
    mnemonic, passphrase, sres, passphrase2, sres2,
    raw, hex, hres, rehex>>

keyVars ==
  <<build, seed, mres, key, steps, path, res, rebases, xprv, buffer, b58>>

mnemonicVars ==
  <<entropy, phrase, decoded, word_count, urandom, validated>>

seedVars ==
  <<mnemonic, passphrase, sres, passphrase2, sres2>>

hexVars ==
  <<raw, hex, hres, rehex>>

(***************************************************************************)
(* Bounds of the model.                                                    *)
(***************************************************************************)
MaxSeedLen == 66

MaxSegs == 2

MaxRebase == 2

LongPathLen == 256

(***************************************************************************)
(* Bytes and strings.                                                      *)
(***************************************************************************)
Rep(b, n) ==
  [i \in 1..n |-> b]

Last(s) ==
  s[Len(s)]

AsciiTable ==
  ("m" :> 109) @@ ("M" :> 77) @@ ("/" :> 47) @@ ("'" :> 39) @@ ("h" :> 104)
  @@ ("+" :> 43) @@ ("-" :> 45) @@ (" " :> 32) @@ ("x" :> 120) @@ ("n" :> 110)
  @@ ("0" :> 48) @@ ("1" :> 49) @@ ("2" :> 50) @@ ("3" :> 51) @@ ("4" :> 52)
  @@ ("5" :> 53) @@ ("6" :> 54) @@ ("7" :> 55) @@ ("8" :> 56) @@ ("9" :> 57)
  @@ ("a" :> 97) @@ ("b" :> 98) @@ ("z" :> 122) @@ ("A" :> 65) @@ ("\t" :> 9)
  @@ ("B" :> 66) @@ ("i" :> 105) @@ ("t" :> 116) @@ ("c" :> 99) @@ ("o" :> 111)
  @@ ("s" :> 115) @@ ("e" :> 101) @@ ("d" :> 100) @@ ("\n" :> 10)
  @@ ("T" :> 84) @@ ("R" :> 82) @@ ("E" :> 69) @@ ("Z" :> 90) @@ ("O" :> 79)

\* the bytes of a string given as a tuple of one-character strings
Str(cs) ==
  [i \in 1..Len(cs) |-> AsciiTable[cs[i]]]

\* char::is_whitespace on the ASCII range
Whitespace ==
  {9, 10, 11, 12, 13, 32}

IsWhitespace(c) ==
  c \in Whitespace

\* the least and the greatest element of a non-empty set of integers
Min(S) ==
  CHOOSE x \in S : \A y \in S : x <= y

Max(S) ==
  CHOOSE x \in S : \A y \in S : x >= y

\* str::trim: from the first to the last character that is not whitespace
Trim(s) ==
  LET keep == {i \in 1..Len(s) : ~IsWhitespace(s[i])}
  IN  IF keep = {} THEN <<>> ELSE SubSeq(s, Min(keep), Max(keep))

\* str::split(sep): the pieces between separators, empty pieces included.
\* The pieces of s[lo..hi] are those of its two halves, the last piece of
\* the left half continuing in the first piece of the right half.
RECURSIVE SplitRange(_, _, _, _)
SplitRange(s, seps, lo, hi) ==
  IF lo > hi THEN << <<>> >>
  ELSE IF lo = hi THEN (IF s[lo] \in seps THEN << <<>>, <<>> >> ELSE << <<s[lo]>> >>)
  ELSE LET mid == (lo + hi) \div 2
           L == SplitRange(s, seps, lo, mid)
           R == SplitRange(s, seps, mid + 1, hi)
       IN  SubSeq(L, 1, Len(L) - 1) \o << L[Len(L)] \o R[1] >> \o Tail(R)

Split(s, sep) ==
  SplitRange(s, {sep}, 1, Len(s))

\* str::split_whitespace: the non-empty pieces between whitespace
split_whitespace(s) ==
  SelectSeq(SplitRange(s, Whitespace, 1, Len(s)), LAMBDA w : w # <<>>)

\* the concatenation of pieces[lo..hi]
RECURSIVE ConcatRange(_, _, _)
ConcatRange(pieces, lo, hi) ==
  IF lo > hi THEN <<>>
  ELSE IF lo = hi THEN pieces[lo]
  ELSE LET mid == (lo + hi) \div 2
       IN  ConcatRange(pieces, lo, mid) \o ConcatRange(pieces, mid + 1, hi)

Concat(pieces) ==
  ConcatRange(pieces, 1, Len(pieces))

\* [&str]::join(sep)
Join(words, sep) ==
  Concat([i \in 1..Len(words) |-> IF i = 1 THEN words[i] ELSE sep \o words[i]])

(***************************************************************************)
(* u32 as 4 big-endian bytes.                                              *)
(***************************************************************************)
U32Zero ==
  <<0, 0, 0, 0>>

\* acc * 10 + d on 4 bytes; ok is FALSE when the result does not fit in u32
MulAdd10(acc, d) ==
  LET t4 == acc[4] * 10 + d
      t3 == acc[3] * 10 + (t4 \div 256)
      t2 == acc[2] * 10 + (t3 \div 256)
      t1 == acc[1] * 10 + (t2 \div 256)
  IN  [ok |-> t1 < 256, val |-> <<t1 % 256, t2 % 256, t3 % 256, t4 % 256>>]

RECURSIVE ParseDigits(_, _)
ParseDigits(ds, acc) ==
  IF ds = <<>> THEN [ok |-> TRUE, val |-> acc]
  ELSE IF Head(ds) \notin 48..57 THEN [ok |-> FALSE, val |-> U32Zero]
  ELSE LET r == MulAdd10(acc, Head(ds) - 48)
       IN  IF r.ok THEN ParseDigits(Tail(ds), r.val)
           ELSE [ok |-> FALSE, val |-> U32Zero]

\* str::parse::<u32>: optional leading '+', then one or more decimal digits
ParseU32(s) ==
  IF s = <<>> THEN [ok |-> FALSE, val |-> U32Zero]
  ELSE IF Head(s) \in {43, 45} /\ Len(s) = 1 THEN [ok |-> FALSE, val |-> U32Zero]
  ELSE IF Head(s) = 43 THEN ParseDigits(Tail(s), U32Zero)
  ELSE ParseDigits(s, U32Zero)

(***************************************************************************)
(* BigUint: big-endian bytes without leading zeros (zero is <<>>).         *)
(***************************************************************************)
StripZeros(s) ==
  LET nz == {i \in 1..Len(s) : s[i] # 0}
  IN  IF nz = {} THEN <<>> ELSE SubSeq(s, Min(nz), Len(s))

from_bytes_be(bytes) ==
  StripZeros(bytes)

to_bytes_be(x) ==
  IF x = <<>> THEN <<0>> ELSE x

PadLeft(s, n) ==
  Rep(0, n - Len(s)) \o s

BigLess(a, b) ==
  \/ Len(a) < Len(b)
  \/ /\ Len(a) = Len(b)
     /\ \E i \in 1..Len(a) : a[i] < b[i] /\ \A j \in 1..(i - 1) : a[j] = b[j]

BigAdd(a, b) ==
  LET L == (IF Len(a) > Len(b) THEN Len(a) ELSE Len(b)) + 1
      A == PadLeft(a, L)
      B == PadLeft(b, L)
      \* the carry into byte i: a byte to its right overflows and every
      \* byte in between passes the carry on
      c(i) == IF \E j \in (i + 1)..L : /\ A[j] + B[j] >= 256
                                        /\ \A m \in (i + 1)..(j - 1) : A[m] + B[m] = 255
              THEN 1 ELSE 0
  IN  StripZeros([i \in 1..L |-> (A[i] + B[i] + c(i)) % 256])

\* a - b for a >= b
BigSub(a, b) ==
  LET L == Len(a)
      B == PadLeft(b, L)
      \* the borrow from byte i
      w(i) == IF \E j \in (i + 1)..L : /\ a[j] < B[j]
                                        /\ \A m \in (i + 1)..(j - 1) : a[m] = B[m]
              THEN 1 ELSE 0
  IN  StripZeros([i \in 1..L |-> (a[i] - B[i] - w(i) + 256) % 256])

RECURSIVE BigMod(_, _)
BigMod(x, n) ==
  IF BigLess(x, n) THEN x ELSE BigMod(BigSub(x, n), n)

(***************************************************************************)
(* Constants of hd_key.rs.                                                 *)
(***************************************************************************)
HARDENED_OFFSET ==
  <<128, 0, 0, 0>>

\* "FFFFFFFFFFFFFFFFFFFFFFFFFFFFFFFEBAAEDCE6AF48A03BBFD25E8CD0364141"
CURVE_ORDER_HEX ==
  <<15,15,15,15,15,15,15,15, 15,15,15,15,15,15,15,15,
    15,15,15,15,15,15,15,15, 15,15,15,15,15,15,15,14,
    11,10,10,14,13,12,14,6,  10,15,4,8,10,0,3,11,
    11,15,13,2,5,14,8,12,    13,0,3,6,4,1,4,1>>

\* BigUint::from_str_radix(CURVE_ORDER_HEX, 16)
curve_order ==
  LET HexPairs(hs) ==
      [i \in 1..(Len(hs) \div 2) |-> hs[2 * i - 1] * 16 + hs[2 * i]]
  IN  from_bytes_be(HexPairs(CURVE_ORDER_HEX))

(***************************************************************************)
(* The primitives of the external crates.  Each is a deterministic         *)
(* function of its input bytes; Mix is the digest the models share.        *)
(***************************************************************************)
\* the sum of (byte + 1) * weight(position) over bytes[lo..hi]
RECURSIVE MixRange(_, _, _)
MixRange(bytes, lo, hi) ==
  IF lo > hi THEN 0
  ELSE IF lo = hi THEN (bytes[lo] + 1) * (1 + ((7 * lo * lo + 3 * lo) % 251))
  ELSE LET mid == (lo + hi) \div 2
       IN  MixRange(bytes, lo, mid) + MixRange(bytes, mid + 1, hi)

Mix(bytes) ==
  (7 + 13 * Len(bytes) + MixRange(bytes, 1, Len(bytes))) % 65521

\* the left 32 bytes of an HMAC-SHA-512 output with digest d: any 256-bit
\* value can occur, the ones at the edges of the scalar range included
HmacLeft(d) ==
  LET sel == d % 16
  IN  CASE sel = 0 -> Rep(0, 32)
        [] sel = 1 -> Rep(0, 31) \o <<1>>
        [] sel = 2 -> PadLeft(BigSub(curve_order, <<1>>), 32)
        [] sel = 3 -> PadLeft(curve_order, 32)
        [] sel = 4 -> PadLeft(BigAdd(curve_order, <<1>>), 32)
        [] sel = 5 -> Rep(255, 32)
        [] OTHER   -> Rep(0, 30) \o <<(d \div 16) % 4, 3 + sel>>

\* Hmac<Sha512>::new_from_slice(hkey), update(data), finalize(): 64 bytes
HmacSha512(hkey, data) ==
  LET d == Mix(hkey \o <<255>> \o data)
      HmacRight == Rep((d \div 16) % 4, 16) \o Rep(d % 3, 16)
  IN  HmacLeft(d) \o HmacRight

\* Sha256::digest(bytes): 32 bytes
Sha256(bytes) ==
  LET m == Mix(bytes)
  IN  [i \in 1..32 |-> (m * i + (m \div 256) + i - 1) % 256]

\* Ripemd160::digest(bytes): 20 bytes
Ripemd160(bytes) ==
  LET m == Mix(<<160>> \o bytes)
  IN  [i \in 1..20 |-> (m * i + (m \div 256) + 3 * i) % 256]

\* PublicKey::from_secret_key(..).serialize(): 33 bytes, 0x02 or 0x03 first
Secp256k1Serialize(sk) ==
  LET m == Mix(<<33>> \o sk)
  IN  <<2 + (m % 2)>> \o [i \in 1..32 |-> (sk[i] * 3 + i + m) % 256]

(***************************************************************************)
(* ExtendedKey (hd_key.rs).                                                *)
(***************************************************************************)
ExtendedKey(pk, cc, d, fp, ci) ==
  [private_key |-> pk, chain_code |-> cc, depth |-> d,
   parent_fingerprint |-> fp, child_index |-> ci]

\* the value of the key field of a result that carries no key
NoKey ==
  ExtendedKey(<<>>, <<>>, 0, <<>>, <<>>)

Ok(k, n) ==
  [tag |-> "Ok", err |-> "", key |-> k, n |-> n]

Err(e, n) ==
  [tag |-> "Err", err |-> e, key |-> NoKey, n |-> n]

Panic(n) ==
  [tag |-> "Panic", err |-> "", key |-> NoKey, n |-> n]

NoResult ==
  [tag |-> "None", err |-> "", key |-> NoKey, n |-> 0]

\* validate_private_key without the comparison with the curve order
validate_private_key_zero_only(private_key) ==
  IF \A i \in 1..Len(private_key) : private_key[i] = 0
  THEN "KeyGenerationError"
  ELSE ""

\* "" when the key is accepted, else the error kind
validate_private_key(private_key) ==
  IF \A i \in 1..Len(private_key) : private_key[i] = 0
  THEN "KeyGenerationError"
  ELSE IF ~BigLess(from_bytes_be(private_key), curve_order)
  THEN "KeyGenerationError"
  ELSE ""

\* the 32 bytes of (key1 + key2) mod n, or <<>> on "Key sum overflow"
add_keys_modulo(key1, key2) ==
  LET sum == BigMod(BigAdd(from_bytes_be(key1), from_bytes_be(key2)), curve_order)
      sum_bytes == to_bytes_be(sum)
  IN  IF Len(sum_bytes) > 32 THEN <<>> ELSE PadLeft(sum_bytes, 32)

\* SecretKey::from_slice rejects 0 and values >= n; <<>> stands for the error
get_public_key(k) ==
  IF validate_private_key(k.private_key) # "" THEN <<>>
  ELSE Secp256k1Serialize(k.private_key)

fingerprint_from_public(public_key) ==
  SubSeq(Ripemd160(Sha256(public_key)), 1, 4)

\* index >= HARDENED_OFFSET
IsHardened(index) ==
  index[1] >= HARDENED_OFFSET[1]

\* u32::checked_add(index, HARDENED_OFFSET)
checked_add_offset(index) ==
  IF index[1] + HARDENED_OFFSET[1] > 255
  THEN [ok |-> FALSE, val |-> U32Zero]
  ELSE [ok |-> TRUE, val |-> <<index[1] + HARDENED_OFFSET[1], index[2], index[3], index[4]>>]

\* self.depth + 1 on a u8: with overflow checks (debug build) the overflow
\* panics, without them (release build) it wraps
DepthPlusOne(depth, bld) ==
  IF depth < 255 THEN [panic |-> FALSE, val |-> depth + 1]
  ELSE IF bld = "debug" THEN [panic |-> TRUE, val |-> 0]
  ELSE [panic |-> FALSE, val |-> 0]

\* the HMAC of derive_child: key chain_code, data 0x00 || private_key ||
\* index for a hardened index and public_key || index otherwise
ChildHmac(self, index) ==
  LET data == (IF IsHardened(index) THEN <<0>> \o self.private_key
               ELSE get_public_key(self)) \o index
  IN  HmacSha512(self.chain_code, data)

\* derive_child(&self, index); n counts the derivation steps made so far
derive_child(self, index, bld, n) ==
  LET hardened == IsHardened(index)
      pub == get_public_key(self)
      result == ChildHmac(self, index)
      il == SubSeq(result, 1, 32)
      ir == SubSeq(result, 33, 64)
      child_key == add_keys_modulo(il, self.private_key)
      d == DepthPlusOne(self.depth, bld)
  IN  IF ~hardened /\ pub = <<>> THEN Err("KeyGenerationError", n)
      ELSE IF child_key = <<>> THEN Err("KeyGenerationError", n)
      ELSE IF validate_private_key(child_key) # "" THEN Err("KeyGenerationError", n)
      ELSE IF pub = <<>> THEN Err("KeyGenerationError", n)
      ELSE IF d.panic THEN Panic(n)
      ELSE Ok(ExtendedKey(child_key, ir, d.val, fingerprint_from_public(pub), index), n + 1)

\* one iteration of the loop of derive_path: r is the state before it (the
\* current key, or the error that ended the loop), component the next piece
DeriveComponent(r, component, bld) ==
  IF r.tag # "Ok" THEN r
  ELSE IF component = <<>> THEN r
  ELSE LET hardened == Last(component) \in {39, 104}
           index_str == IF hardened THEN SubSeq(component, 1, Len(component) - 1)
                        ELSE component
           index == ParseU32(index_str)
           final_index == IF hardened THEN checked_add_offset(index.val) ELSE index
       IN  IF ~index.ok THEN Err("InvalidDerivationPath", r.n)
           ELSE IF ~final_index.ok THEN Err("InvalidDerivationPath", r.n)
           ELSE derive_child(r.key, final_index.val, bld, r.n)

\* the loop of derive_path over components[lo..hi], left to right
RECURSIVE DeriveComponents(_, _, _, _, _)
DeriveComponents(r, components, lo, hi, bld) ==
  IF lo > hi THEN r
  ELSE IF lo = hi THEN DeriveComponent(r, components[lo], bld)
  ELSE LET mid == (lo + hi) \div 2
           left == DeriveComponents(r, components, lo, mid, bld)
       IN  IF left.tag # "Ok" THEN left
           ELSE DeriveComponents(left, components, mid + 1, hi, bld)

\* derive_path(&self, path)
derive_path(self, p, bld) ==
  LET trimmed == Trim(p)
  IN  IF trimmed = <<>> \/ Head(trimmed) \notin {109, 77}
      THEN Err("InvalidDerivationPath", 0)
      ELSE IF Len(trimmed) > 2 /\ trimmed[2] = 47
      THEN LET rest == SubSeq(trimmed, 3, Len(trimmed))
           IN  IF rest = <<>> THEN Ok(self, 0)
               ELSE LET components == Split(rest, 47)
                    IN  DeriveComponents(Ok(self, 0), components, 1, Len(components), bld)
      ELSE IF Len(trimmed) = 1 THEN Ok(self, 0)
      ELSE Err("InvalidDerivationPath", 0)

\* from_seed with the lower length limit off by one
from_seed_short_limit(s) ==
  IF Len(s) <= 16 \/ Len(s) > 64 THEN Err("InvalidSeedLength", 0)
  ELSE LET result == HmacSha512(Str(<<"B","i","t","c","o","i","n"," ","s","e","e","d">>), s)
           private_key == SubSeq(result, 1, 32)
           chain_code == SubSeq(result, 33, 64)
       IN  IF validate_private_key(private_key) # "" THEN Err("KeyGenerationError", 0)
           ELSE Ok(ExtendedKey(private_key, chain_code, 0, Rep(0, 4), U32Zero), 0)

\* from_seed with the two halves of the HMAC output taken the other way round
from_seed_swapped_halves(s) ==
  IF Len(s) < 16 \/ Len(s) > 64 THEN Err("InvalidSeedLength", 0)
  ELSE LET result == HmacSha512(Str(<<"B","i","t","c","o","i","n"," ","s","e","e","d">>), s)
           private_key == SubSeq(result, 33, 64)
           chain_code == SubSeq(result, 1, 32)
       IN  IF validate_private_key(private_key) # "" THEN Err("KeyGenerationError", 0)
           ELSE Ok(ExtendedKey(private_key, chain_code, 0, Rep(0, 4), U32Zero), 0)

\* ExtendedKey::from_seed(seed) and master_key_from_seed(seed)
from_seed(s) ==
  IF Len(s) < 16 \/ Len(s) > 64 THEN Err("InvalidSeedLength", 0)
  ELSE LET result == HmacSha512(Str(<<"B","i","t","c","o","i","n"," ","s","e","e","d">>), s)
           private_key == SubSeq(result, 1, 32)
           chain_code == SubSeq(result, 33, 64)
       IN  IF validate_private_key(private_key) # "" THEN Err("KeyGenerationError", 0)
           ELSE Ok(ExtendedKey(private_key, chain_code, 0, Rep(0, 4), U32Zero), 0)

master_key_from_seed(s) ==
  from_seed(s)

(***************************************************************************)
(* Inputs of the extended-key tree.                                        *)
(***************************************************************************)
Seeds ==
  LET SeedFill ==
      {0, 1, 2, 7}
  IN  {Rep(b, n) : n \in 0..MaxSeedLen, b \in SeedFill}

\* the seeds the tree is grown from: both sides of the two length limits
TreeSeeds ==
  {Rep(b, n) : n \in {15, 16, 64, 65}, b \in {0, 1, 2}}

\* path segments: plain and hardened indices, an empty segment, malformed
\* ones, and integers on both sides of 2^31 and of 2^32
CoreSegments ==
  { Str(<<"0">>), Str(<<"1","'">>), <<>>, Str(<<"x">>),
    Str(<<"2","1","4","7","4","8","3","6","4","8">>) }

\* "/" and the segment, for each segment
RECURSIVE SlashJoin(_)
SlashJoin(segs) ==
  IF segs = <<>> THEN <<>> ELSE <<47>> \o Head(segs) \o SlashJoin(Tail(segs))

PathOf(head, segs) ==
  head \o SlashJoin(segs)

\* "m/0/0/.../0" with k segments
LongPath(k) ==
  [i \in 1..(2 * k + 1) |-> IF i = 1 THEN 109 ELSE IF i % 2 = 0 THEN 47 ELSE 48]

Paths ==
  LET \* paths with another leading token, and paths in outer whitespace
      OddPaths ==
        { Str(<<"M">>), Str(<<"M","/","0">>), Str(<<"M","/">>), <<>>, Str(<<" ">>),
          Str(<<"x">>), Str(<<"x","/","0">>), Str(<<"/","0">>), Str(<<"0">>),
          Str(<<"m","0">>), Str(<<"m","m","/","0">>), Str(<<"n","/","0">>),
          Str(<<" ","m","/","0"," ">>), Str(<<"m"," ">>), Str(<<"m","/"," ","0">>) }
      Segments ==
        CoreSegments \cup
        { Str(<<"1">>), Str(<<"0","'">>), Str(<<"1","h">>), Str(<<"'">>), Str(<<"h">>),
          Str(<<"+","1">>), Str(<<"-","1">>),
          Str(<<"2","1","4","7","4","8","3","6","4","7">>),
          Str(<<"2","1","4","7","4","8","3","6","4","7","'">>),
          Str(<<"2","1","4","7","4","8","3","6","4","8","'">>),
          Str(<<"4","2","9","4","9","6","7","2","9","5">>),
          Str(<<"4","2","9","4","9","6","7","2","9","6">>) }
      \* every single segment, and the lists of 2..MaxSegs core segments
      SegLists ==
        {<<>>} \cup {<<g>> : g \in Segments}
        \cup UNION {[1..k -> CoreSegments] : k \in 2..MaxSegs}
  IN  {PathOf(Str(<<"m">>), segs) : segs \in SegLists} \cup OddPaths

\* the paths a caller passes to a derived key
RebasePaths ==
  {PathOf(Str(<<"m">>), segs) :
     segs \in {<<>>, <<Str(<<"0">>), Str(<<"1", "'">>)>>} \cup {<<g>> : g \in CoreSegments}}

\* the paths a caller passes after r changes of the key it holds
PathsAt(r) ==
  LET LongPaths ==
      {LongPath(LongPathLen - 1), LongPath(LongPathLen)}
  IN  IF r = 0 THEN Paths \cup LongPaths ELSE RebasePaths

(***************************************************************************)
(* The extended-key tree as a state machine: a caller makes a master key   *)
(* from a seed, calls derive_path on the key it holds, and may go on with  *)
(* the derived key or drop it.  steps counts the derive_child calls behind *)
(* key.                                                                    *)
(***************************************************************************)
IdleMnemonic ==
  /\ entropy = <<>>
  /\ phrase = [tag |-> "None", err |-> "", val |-> <<>>]
  /\ decoded = [tag |-> "None", err |-> "", val |-> <<>>]
  /\ word_count = 0
  /\ urandom = [open |-> FALSE, data |-> <<>>]
  /\ validated = [tag |-> "None", err |-> "", val |-> <<>>]

IdleSeed ==
  /\ mnemonic = <<>>
  /\ passphrase = <<>>
  /\ sres = [tag |-> "None", err |-> "", seed |-> <<>>,
             password |-> <<>>, salt |-> <<>>, iterations |-> 0]
  /\ passphrase2 = <<>>
  /\ sres2 = [tag |-> "None", err |-> "", seed |-> <<>>,
              password |-> <<>>, salt |-> <<>>, iterations |-> 0]

IdleHex ==
  /\ raw = <<>>
  /\ hex = [tag |-> "None", err |-> "", val |-> <<>>]
  /\ hres = [tag |-> "None", err |-> "", val |-> <<>>]
  /\ rehex = [tag |-> "None", err |-> "", val |-> <<>>]

IdleKey ==
  /\ seed = <<>>
  /\ mres = NoResult
  /\ key = NoKey
  /\ steps = 0
  /\ path = <<>>
  /\ res = NoResult
  /\ rebases = 0
  /\ xprv = <<>>
  /\ buffer = <<>>
  /\ b58 = <<>>

Init ==
  /\ build \in {"debug", "release"}
  /\ IdleKey
  /\ IdleHex
  /\ IdleMnemonic
  /\ IdleSeed

\* the caller starts over: the key it holds is the new master key
MasterKeyFromSeed(s) ==
  /\ seed' = s
  /\ mres' = master_key_from_seed(s)
  /\ key' = mres'.key
  /\ steps' = 0
  /\ path' = <<>>
  /\ res' = NoResult
  /\ rebases' = 0
  /\ xprv' = <<>>
  /\ UNCHANGED <<build, buffer, b58, mnemonicVars, seedVars, hexVars>>

DerivePath(p) ==
  /\ mres.tag = "Ok"
  /\ res.tag = "None"
  /\ path' = p
  /\ res' = derive_path(key, p, build)
  /\ UNCHANGED <<build, seed, mres, key, steps, rebases, xprv, buffer, b58, mnemonicVars, seedVars, hexVars>>

UseDerived ==
  /\ res.tag = "Ok"
  /\ rebases < MaxRebase
  /\ key' = res.key
  /\ steps' = steps + res.n
  /\ rebases' = rebases + 1
  /\ xprv' = <<>>
  /\ path' = <<>>
  /\ res' = NoResult
  /\ UNCHANGED <<build, seed, mres, buffer, b58, mnemonicVars, seedVars, hexVars>>

\* the caller drops the result of derive_path and keeps the key it holds
DropDerived ==
  /\ res.tag # "None"
  /\ path' = <<>>
  /\ res' = NoResult
  /\ UNCHANGED <<build, seed, mres, key, steps, rebases, xprv, buffer, b58, mnemonicVars, seedVars, hexVars>>

Next ==
  \/ \E s \in TreeSeeds : MasterKeyFromSeed(s)
  \/ \E p \in PathsAt(rebases) : DerivePath(p)
  \/ UseDerived
  \/ DropDerived

Spec ==
  Init /\ [][Next]_vars

(***************************************************************************)
(* master_key_from_seed alone, over every seed length up to MaxSeedLen.    *)
(***************************************************************************)
NextMaster ==
  \E s \in Seeds : MasterKeyFromSeed(s)

SpecMaster ==
  Init /\ [][NextMaster]_vars

(***************************************************************************)
(* Properties of the extended-key tree.                                    *)
(***************************************************************************)
\* a 32-byte private key that is a valid secp256k1 scalar
ValidScalar(pk) ==
  /\ Len(pk) = 32
  /\ \E i \in 1..32 : pk[i] # 0
  /\ BigLess(StripZeros(pk), curve_order)

\* the text of a path after its two-character prefix, split at "/"
BodyComponents(p) ==
  LET t == Trim(p)
  IN  IF Len(t) > 2 THEN Split(SubSeq(t, 3, Len(t)), 47) ELSE <<>>

NonEmptyComponents(p) ==
  SelectSeq(BodyComponents(p), LAMBDA c : c # <<>>)

HasMarker(c) ==
  c # <<>> /\ Last(c) \in {39, 104}

\* the decimal text of a segment: the segment without its hardening marker
IndexText(c) ==
  IF HasMarker(c) THEN SubSeq(c, 1, Len(c) - 1) ELSE c

IsDecimal(t) ==
  t # <<>> /\ \A i \in 1..Len(t) : t[i] \in 48..57

\* C2: every ExtendedKey reached by master_key_from_seed and successful
\* derive_path calls has a private key that is nonzero and below the curve
\* order n
C2_PrivateKeyIsValidScalar ==
  /\ mres.tag = "Ok" => ValidScalar(mres.key.private_key)
  /\ key # NoKey => ValidScalar(key.private_key)
  /\ res.tag = "Ok" => ValidScalar(res.key.private_key)

\* a key derived by a second derive_path call, made on a derived key
C2_Witness ==
  /\ rebases >= 1
  /\ res.tag = "Ok"
  /\ res.n >= 1
  /\ steps >= 1

\* C3: derive_child returns an error, and no child key, whenever the left
\* half I_L of its HMAC-SHA-512 output is at least the curve order n
C3_RejectsLeftHalfAboveOrder ==
  LET ChildIndices ==
      { <<0, 0, 0, 0>>, <<0, 0, 0, 1>>, <<128, 0, 0, 0>>, <<128, 0, 0, 1>> }
  IN  key # NoKey =>
        \A index \in ChildIndices :
          ~BigLess(from_bytes_be(SubSeq(ChildHmac(key, index), 1, 32)), curve_order)
            => derive_child(key, index, build, steps).tag = "Err"

\* C4: deriving a child of a key of depth 255 fails with
\* InvalidDerivationPath: derive_path never aborts, and the depth of a key
\* it returns is the number of derivation steps that produced the key
C4_DepthOverflowIsAnError ==
  /\ res.tag # "Panic"
  /\ res.tag = "Ok" => res.key.depth = steps + res.n
  /\ (res.tag # "None" /\ steps + Len(NonEmptyComponents(path)) > 255
        /\ \A i \in 1..Len(BodyComponents(path)) : BodyComponents(path)[i] \in {<<>>, <<48>>})
       => (res.tag = "Err" /\ res.err \in {"InvalidDerivationPath", "KeyGenerationError"})

\* C7: a segment of derive_path whose integer is 2^31 or more is rejected
\* with InvalidDerivationPath, with or without a hardening marker, so a
\* segment without marker never gives a hardened child index
C7_SegmentIntegerBelow2Pow31 ==
  \* the integer of a decimal text is at least 2^31: it has more than 10
  \* significant digits or is not below "2147483648" digit by digit
  LET AtLeast2Pow31(t) ==
      LET sig == StripZeros([i \in 1..Len(t) |-> t[i] - 48])
          lim == <<2, 1, 4, 7, 4, 8, 3, 6, 4, 8>>
      IN  IsDecimal(t) /\ ~BigLess(sig, lim)
  IN  LET cs == NonEmptyComponents(path)
      IN  /\ (res.tag # "None" /\ Head(Trim(path) \o <<0>>) \in {109, 77} /\ cs # <<>>
                /\ AtLeast2Pow31(IndexText(cs[1])))
              => (res.tag = "Err" /\ res.err = "InvalidDerivationPath")
          /\ (res.tag = "Ok" /\ res.n > 0 /\ ~HasMarker(cs[Len(cs)]))
              => ~IsHardened(res.key.child_index)

\* C8: derive_path fails with InvalidDerivationPath for every path with an
\* empty segment or a malformed one; no segment is skipped
C8_EmptyOrMalformedSegmentRejected ==
  LET cs == BodyComponents(path)
  IN  (res.tag # "None" /\ \E i \in 1..Len(cs) : ~IsDecimal(IndexText(cs[i])))
        => (res.tag = "Err" /\ res.err = "InvalidDerivationPath")

\* C9: derive_path returns the root itself for the paths "m", "m/" and "M",
\* and fails with InvalidDerivationPath when the leading token of the path
\* is neither m nor M
C9_RootPaths ==
  \* the text of a path before its first "/"
  LET LeadingToken(p) ==
      Split(Trim(p), 47)[1]
  IN  res.tag # "None" =>
        /\ path \in {Str(<<"m">>), Str(<<"m","/">>), Str(<<"M">>)}
             => (res.tag = "Ok" /\ res.key = key)
        /\ LeadingToken(path) \notin {Str(<<"m">>), Str(<<"M">>)}
             => (res.tag = "Err" /\ res.err = "InvalidDerivationPath")

\* C10: master_key_from_seed fails with InvalidSeedLength exactly when the
\* seed is shorter than 16 or longer than 64 bytes; for the other lengths
\* it returns a key or fails with KeyGenerationError
C10_SeedLengthCheck ==
  mres.tag # "None" =>
    /\ (mres.tag = "Err" /\ mres.err = "InvalidSeedLength")
         <=> (Len(seed) < 16 \/ Len(seed) > 64)
    /\ Len(seed) \in 16..64
         => (mres.tag = "Ok" \/ (mres.tag = "Err" /\ mres.err = "KeyGenerationError"))

\* a seed of the least accepted length, and the master key made from it
C10_Witness ==
  /\ Len(seed) = 16
  /\ mres.tag = "Ok"
  /\ mres.key.depth = 0

(***************************************************************************)
(* The mnemonic codec (mnemonic.rs, utils.rs).                             *)
(***************************************************************************)
\* WORDLIST (include!("wordlist.txt")): 2048 lowercase words in
\* lexicographic order; the word at 0-based position i is the three
\* letters of i written in base 26
WORDLIST ==
  [i \in 1..2048 |->
     <<97 + ((i - 1) \div 676), 97 + (((i - 1) \div 26) % 26), 97 + ((i - 1) % 26)>>]

\* Ord for byte strings: a < b byte by byte, a proper prefix first
StrLess(a, b) ==
  \/ \E i \in 1..Len(a) : /\ i <= Len(b)
                          /\ a[i] < b[i]
                          /\ \A j \in 1..(i - 1) : a[j] = b[j]
  \/ /\ Len(a) < Len(b)
     /\ \A j \in 1..Len(a) : a[j] = b[j]

\* [T]::binary_search on list[lo+1..hi]: the 0-based position of the word,
\* or -1 when the search ends without a match
RECURSIVE BinarySearchFrom(_, _, _, _)
BinarySearchFrom(list, word, lo, hi) ==
  IF lo >= hi THEN -1
  ELSE LET mid == lo + ((hi - lo) \div 2)
       IN  IF list[mid + 1] = word THEN mid
           ELSE IF StrLess(list[mid + 1], word) THEN BinarySearchFrom(list, word, mid + 1, hi)
           ELSE BinarySearchFrom(list, word, lo, mid)

binary_search(list, word) ==
  BinarySearchFrom(list, word, 0, Len(list))

is_valid_word(word) ==
  binary_search(WORDLIST, word) >= 0

\* utils::validate_word_count
validate_word_count(count) ==
  IF count \in {12, 15, 18, 21, 24} THEN "" ELSE "InvalidWordCount"

\* calculate_sha256_checksum
calculate_sha256_checksum(bytes) ==
  Sha256(bytes)

\* 2^k
Pow2(k) ==
  CASE k = 0 -> 1 [] k = 1 -> 2 [] k = 2 -> 4 [] k = 3 -> 8 [] k = 4 -> 16
    [] k = 5 -> 32 [] k = 6 -> 64 [] k = 7 -> 128 [] k = 8 -> 256 [] k = 9 -> 512
    [] k = 10 -> 1024 [] k = 11 -> 2048

\* (x >> k) & 1
BitAt(x, k) ==
  (x \div Pow2(k)) % 2

OkVal(v) ==
  [tag |-> "Ok", err |-> "", val |-> v]

ErrVal(e) ==
  [tag |-> "Err", err |-> e, val |-> <<>>]

NoVal ==
  [tag |-> "None", err |-> "", val |-> <<>>]

\* the checksum bits taken from the low end of checksum[0]:
\* (checksum[0] >> i) & 1
ChecksumBitLsbFirst(checksum, i) ==
  BitAt(checksum[1], i)

\* the checksum bit pushed at step i of the checksum loop:
\* (checksum[0] >> (7 - i)) & 1
ChecksumBit(checksum, i) ==
  BitAt(checksum[1], 7 - i)

\* entropy_to_mnemonic_checked with the bits of a chunk weighted from the
\* low end: index |= bit << i
entropy_to_mnemonic_checked_lsb_index(e) ==
  LET entropy_bits == Len(e) * 8
      checksum == calculate_sha256_checksum(e)
      checksum_bits == entropy_bits \div 32
      bits == [j \in 1..(entropy_bits + checksum_bits) |->
                 IF j <= entropy_bits
                 THEN BitAt(e[((j - 1) \div 8) + 1], 7 - ((j - 1) % 8))
                 ELSE ChecksumBit(checksum, j - entropy_bits - 1)]
      nchunks == (Len(bits) + 10) \div 11
      chunk(k) == SubSeq(bits, 11 * (k - 1) + 1, IF 11 * k <= Len(bits) THEN 11 * k ELSE Len(bits))
      index(k) == LET c == chunk(k)
                  IN  c[11] * 1024 + c[10] * 512 + c[9] * 256 + c[8] * 128 + c[7] * 64
                      + c[6] * 32 + c[5] * 16 + c[4] * 8 + c[3] * 4 + c[2] * 2 + c[1]
      words == Concat([k \in 1..nchunks |->
                 IF Len(chunk(k)) = 11 /\ index(k) < Len(WORDLIST)
                 THEN <<WORDLIST[index(k) + 1]>> ELSE <<>>])
  IN  IF entropy_bits \notin {128, 160, 192, 224, 256} THEN ErrVal("EncodingError")
      ELSE OkVal(Join(words, <<32>>))

\* entropy_to_mnemonic_checked(entropy)
entropy_to_mnemonic_checked(e) ==
  LET entropy_bits == Len(e) * 8
      checksum == calculate_sha256_checksum(e)
      checksum_bits == entropy_bits \div 32
      bits == [j \in 1..(entropy_bits + checksum_bits) |->
                 IF j <= entropy_bits
                 THEN BitAt(e[((j - 1) \div 8) + 1], 7 - ((j - 1) % 8))
                 ELSE ChecksumBit(checksum, j - entropy_bits - 1)]
      nchunks == (Len(bits) + 10) \div 11
      chunk(k) == SubSeq(bits, 11 * (k - 1) + 1, IF 11 * k <= Len(bits) THEN 11 * k ELSE Len(bits))
      index(k) == LET c == chunk(k)
                  IN  c[1] * 1024 + c[2] * 512 + c[3] * 256 + c[4] * 128 + c[5] * 64
                      + c[6] * 32 + c[7] * 16 + c[8] * 8 + c[9] * 4 + c[10] * 2 + c[11]
      words == Concat([k \in 1..nchunks |->
                 IF Len(chunk(k)) = 11 /\ index(k) < Len(WORDLIST)
                 THEN <<WORDLIST[index(k) + 1]>> ELSE <<>>])
  IN  IF entropy_bits \notin {128, 160, 192, 224, 256} THEN ErrVal("EncodingError")
      ELSE OkVal(Join(words, <<32>>))

\* the byte made of the bits chunk, most significant first: byte |= bit << (7 - i)
ByteOfBits(chunk) ==
  LET b(i) == IF i <= Len(chunk) THEN chunk[i] * Pow2(8 - i) ELSE 0
  IN  b(1) + b(2) + b(3) + b(4) + b(5) + b(6) + b(7) + b(8)

\* mnemonic_to_entropy with the checksum bytes compared without the shift
mnemonic_to_entropy_unshifted(m) ==
  LET words == split_whitespace(Trim(m))
      indices == [k \in 1..Len(words) |-> binary_search(WORDLIST, words[k])]
      bits == [j \in 1..(11 * Len(words)) |->
                 BitAt(indices[((j - 1) \div 11) + 1], 10 - ((j - 1) % 11))]
      total_bits == Len(bits)
      checksum_bits == total_bits \div 33
      entropy_bits == total_bits - checksum_bits
      entropy_bits_slice == SubSeq(bits, 1, entropy_bits)
      nbytes == (entropy_bits + 7) \div 8
      e == [k \in 1..nbytes |->
              ByteOfBits(SubSeq(entropy_bits_slice, 8 * (k - 1) + 1,
                                IF 8 * k <= entropy_bits THEN 8 * k ELSE entropy_bits))]
      calculated_checksum == calculate_sha256_checksum(e)
      actual_checksum == ByteOfBits(SubSeq(bits, entropy_bits + 1, entropy_bits + checksum_bits))
  IN  IF validate_word_count(Len(words)) # "" THEN ErrVal("InvalidWordCount")
      ELSE IF \E k \in 1..Len(words) : indices[k] < 0 THEN ErrVal("InvalidMnemonic")
      ELSE IF calculated_checksum[1] # actual_checksum
      THEN ErrVal("InvalidMnemonic")
      ELSE OkVal(e)

\* mnemonic_to_entropy(mnemonic)
mnemonic_to_entropy(m) ==
  LET words == split_whitespace(Trim(m))
      indices == [k \in 1..Len(words) |-> binary_search(WORDLIST, words[k])]
      bits == [j \in 1..(11 * Len(words)) |->
                 BitAt(indices[((j - 1) \div 11) + 1], 10 - ((j - 1) % 11))]
      total_bits == Len(bits)
      checksum_bits == total_bits \div 33
      entropy_bits == total_bits - checksum_bits
      entropy_bits_slice == SubSeq(bits, 1, entropy_bits)
      nbytes == (entropy_bits + 7) \div 8
      e == [k \in 1..nbytes |->
              ByteOfBits(SubSeq(entropy_bits_slice, 8 * (k - 1) + 1,
                                IF 8 * k <= entropy_bits THEN 8 * k ELSE entropy_bits))]
      calculated_checksum == calculate_sha256_checksum(e)
      actual_checksum == ByteOfBits(SubSeq(bits, entropy_bits + 1, entropy_bits + checksum_bits))
      shift == 8 - checksum_bits
  IN  IF validate_word_count(Len(words)) # "" THEN ErrVal("InvalidWordCount")
      ELSE IF \E k \in 1..Len(words) : indices[k] < 0 THEN ErrVal("InvalidMnemonic")
      ELSE IF calculated_checksum[1] \div Pow2(shift) # actual_checksum \div Pow2(shift)
      THEN ErrVal("InvalidMnemonic")
      ELSE OkVal(e)

\* validate_mnemonic_checksum(mnemonic)
validate_mnemonic_checksum(m) ==
  LET words == split_whitespace(Trim(m))
      result == mnemonic_to_entropy(m)
  IN  IF validate_word_count(Len(words)) # "" THEN ErrVal("InvalidWordCount")
      ELSE IF result.tag # "Ok" THEN result
      ELSE OkVal(<<>>)

\* validate_mnemonic without the call of validate_mnemonic_checksum
validate_mnemonic_words_only(m) ==
  LET words == split_whitespace(Trim(m))
  IN  IF validate_word_count(Len(words)) # "" THEN ErrVal("InvalidWordCount")
      ELSE IF \E k \in 1..Len(words) : ~is_valid_word(words[k]) THEN ErrVal("InvalidMnemonic")
      ELSE OkVal(<<>>)

\* validate_mnemonic with the words looked up before the count is checked
validate_mnemonic_words_first(m) ==
  LET words == split_whitespace(Trim(m))
      checked == validate_mnemonic_checksum(m)
  IN  IF \E k \in 1..Len(words) : ~is_valid_word(words[k]) THEN ErrVal("InvalidMnemonic")
      ELSE IF validate_word_count(Len(words)) # "" THEN ErrVal("InvalidWordCount")
      ELSE IF checked.tag # "Ok" THEN checked
      ELSE OkVal(<<>>)

\* validate_mnemonic(mnemonic)
validate_mnemonic(m) ==
  LET words == split_whitespace(Trim(m))
      checked == validate_mnemonic_checksum(m)
  IN  IF validate_word_count(Len(words)) # "" THEN ErrVal("InvalidWordCount")
      ELSE IF \E k \in 1..Len(words) : ~is_valid_word(words[k]) THEN ErrVal("InvalidMnemonic")
      ELSE IF checked.tag # "Ok" THEN checked
      ELSE OkVal(<<>>)

\* generate_entropy(bytes): /dev/urandom is opened and read_exact fills the
\* buffer; dev is the device as the call finds it
generate_entropy(bytes, dev) ==
  IF ~dev.open THEN ErrVal("KeyGenerationError")
  ELSE IF Len(dev.data) < bytes THEN ErrVal("KeyGenerationError")
  ELSE OkVal(SubSeq(dev.data, 1, bytes))

\* generate_mnemonic with the entropy one byte short
generate_mnemonic_short_entropy(count, dev) ==
  LET entropy_bits == CASE count = 12 -> 128 [] count = 15 -> 160 [] count = 18 -> 192
                        [] count = 21 -> 224 [] count = 24 -> 256 [] OTHER -> 0
      entropy_bytes == (entropy_bits \div 8) - 1
      e == generate_entropy(entropy_bytes, dev)
  IN  IF validate_word_count(count) # "" THEN ErrVal("InvalidWordCount")
      ELSE IF entropy_bits = 0 THEN ErrVal("InvalidWordCount")
      ELSE IF e.tag # "Ok" THEN e
      ELSE entropy_to_mnemonic_checked(e.val)

\* generate_mnemonic(word_count)
generate_mnemonic(count, dev) ==
  LET entropy_bits == CASE count = 12 -> 128 [] count = 15 -> 160 [] count = 18 -> 192
                        [] count = 21 -> 224 [] count = 24 -> 256 [] OTHER -> 0
      entropy_bytes == entropy_bits \div 8
      e == generate_entropy(entropy_bytes, dev)
  IN  IF validate_word_count(count) # "" THEN ErrVal("InvalidWordCount")
      ELSE IF entropy_bits = 0 THEN ErrVal("InvalidWordCount")
      ELSE IF e.tag # "Ok" THEN e
      ELSE entropy_to_mnemonic_checked(e.val)

(***************************************************************************)
(* The codec as a state machine: a caller holds an entropy, encodes it and *)
(* decodes the phrase it got.                                              *)
(***************************************************************************)
MaxEntropyLen == 33

EntropyBytes ==
  {0, 1, 128, 255}

\* a first byte, a last byte and the bytes between them
Entropies ==
  {<<>>} \cup
  {<<a>> \o Rep(b, n - 2) \o <<c>> : n \in 2..MaxEntropyLen,
                                     a \in EntropyBytes, b \in EntropyBytes, c \in EntropyBytes}

InitMnemonic ==
  /\ build \in {"debug", "release"}
  /\ IdleKey
  /\ IdleHex
  /\ IdleSeed
  /\ entropy \in Entropies
  /\ phrase = NoVal
  /\ decoded = NoVal
  /\ word_count = 0
  /\ urandom = [open |-> FALSE, data |-> <<>>]
  /\ validated = NoVal

EntropyToMnemonic ==
  /\ phrase.tag = "None"
  /\ phrase' = entropy_to_mnemonic_checked(entropy)
  /\ UNCHANGED <<entropy, decoded, word_count, urandom, validated, keyVars, seedVars, hexVars>>

MnemonicToEntropy ==
  /\ phrase.tag = "Ok"
  /\ decoded.tag = "None"
  /\ decoded' = mnemonic_to_entropy(phrase.val)
  /\ UNCHANGED <<entropy, phrase, word_count, urandom, validated, keyVars, seedVars, hexVars>>

NextMnemonic ==
  \/ EntropyToMnemonic
  \/ MnemonicToEntropy

SpecMnemonic ==
  InitMnemonic /\ [][NextMnemonic]_vars

\* C1: for every entropy of 16, 20, 24, 28 or 32 bytes, mnemonic_to_entropy
\* of entropy_to_mnemonic_checked of the entropy succeeds and returns the
\* entropy
C1_RoundTrip ==
  /\ (Len(entropy) \in {16, 20, 24, 28, 32} /\ phrase.tag # "None") => phrase.tag = "Ok"
  /\ decoded.tag # "None" => (decoded.tag = "Ok" /\ decoded.val = entropy)

\* a 32-byte entropy with bits set at both ends, encoded and decoded
C1_Witness ==
  /\ Len(entropy) = 32
  /\ entropy[1] = 128
  /\ entropy[32] = 1
  /\ decoded.tag = "Ok"

(***************************************************************************)
(* Seed derivation (seed.rs).                                              *)
(***************************************************************************)
\* char::is_ascii_lowercase
is_ascii_lowercase(c) ==
  c \in 97..122

\* normalize_mnemonic with the trimmed text returned as it is
normalize_mnemonic_trim_only(m) ==
  LET trimmed == Trim(m)
      words == split_whitespace(trimmed)
  IN  IF trimmed = <<>> THEN ErrVal("InvalidSeedLength")
      ELSE IF Len(words) \notin {12, 15, 18, 21, 24} THEN ErrVal("KeyGenerationError")
      ELSE IF \E k \in 1..Len(words) :
                \/ words[k] = <<>>
                \/ \E i \in 1..Len(words[k]) : ~is_ascii_lowercase(words[k][i])
      THEN ErrVal("KeyGenerationError")
      ELSE OkVal(trimmed)

\* normalize_mnemonic without the check of the words' characters
normalize_mnemonic_count_only(m) ==
  LET trimmed == Trim(m)
      words == split_whitespace(trimmed)
  IN  IF trimmed = <<>> THEN ErrVal("InvalidSeedLength")
      ELSE IF Len(words) \notin {12, 15, 18, 21, 24} THEN ErrVal("KeyGenerationError")
      ELSE OkVal(Join(words, <<32>>))

\* normalize_mnemonic(mnemonic)
normalize_mnemonic(m) ==
  LET trimmed == Trim(m)
      words == split_whitespace(trimmed)
  IN  IF trimmed = <<>> THEN ErrVal("InvalidSeedLength")
      ELSE IF Len(words) \notin {12, 15, 18, 21, 24} THEN ErrVal("KeyGenerationError")
      ELSE IF \E k \in 1..Len(words) :
                \/ words[k] = <<>>
                \/ \E i \in 1..Len(words[k]) : ~is_ascii_lowercase(words[k][i])
      THEN ErrVal("KeyGenerationError")
      ELSE OkVal(Join(words, <<32>>))

\* the iteration count of the pbkdf2 call
Pbkdf2Iterations == 2048

\* pbkdf2::<Hmac<Sha512>>(password, salt, rounds, &mut [0u8; 64]): the 64
\* bytes are a function of the password, the salt and the rounds
Pbkdf2HmacSha512(password, salt, rounds) ==
  LET d == (Mix(password) * 31 + Mix(salt) * 17 + rounds) % 65521
  IN  [i \in 1..64 |-> (d * i + (d \div 256) + 3 * i) % 256]

SeedOk(sd, password, salt, rounds) ==
  [tag |-> "Ok", err |-> "", seed |-> sd,
   password |-> password, salt |-> salt, iterations |-> rounds]

SeedErr(e) ==
  [tag |-> "Err", err |-> e, seed |-> <<>>,
   password |-> <<>>, salt |-> <<>>, iterations |-> 0]

NoSeed ==
  [tag |-> "None", err |-> "", seed |-> <<>>,
   password |-> <<>>, salt |-> <<>>, iterations |-> 0]

\* mnemonic_to_seed with the salt "mnemonic" alone
mnemonic_to_seed_fixed_salt(m, pass) ==
  LET normalized == normalize_mnemonic(m)
      password == normalized.val
      salt == Str(<<"m", "n", "e", "m", "o", "n", "i", "c">>)
  IN  IF normalized.tag # "Ok" THEN SeedErr(normalized.err)
      ELSE SeedOk(Pbkdf2HmacSha512(password, salt, Pbkdf2Iterations),
                  password, salt, Pbkdf2Iterations)

\* mnemonic_to_seed(mnemonic, passphrase); the result keeps the arguments
\* of the pbkdf2 call next to the seed
mnemonic_to_seed(m, pass) ==
  LET normalized == normalize_mnemonic(m)
      password == normalized.val
      salt == Str(<<"m", "n", "e", "m", "o", "n", "i", "c">>) \o pass
  IN  IF normalized.tag # "Ok" THEN SeedErr(normalized.err)
      ELSE SeedOk(Pbkdf2HmacSha512(password, salt, Pbkdf2Iterations),
                  password, salt, Pbkdf2Iterations)

(***************************************************************************)
(* Seed derivation as a state machine: a caller holds a mnemonic and a     *)
(* passphrase and asks for the seed.                                       *)
(***************************************************************************)
MaxWords == 25

\* the words a mnemonic is made of: "ab", and at the first or the last place
\* a word of another shape
SeedWords ==
  {Str(<<"a", "b">>), Str(<<"z">>), Str(<<"a", "B">>), Str(<<"a", "1">>), Str(<<"a", "-", "b">>)}

Margins ==
  {<<>>, Str(<<" ">>), Str(<<"\n", " ">>)}

MnemonicOf(n, first, last, sep, lead, trail) ==
  lead \o Join([k \in 1..n |-> IF k = 1 THEN first
                               ELSE IF k = n THEN last ELSE Str(<<"a", "b">>)], sep) \o trail

Mnemonics ==
  LET Separators ==
      {Str(<<" ">>), Str(<<" ", " ">>), Str(<<"\t">>), Str(<<" ", "\n">>)}
  IN  {MnemonicOf(n, first, Str(<<"a", "b">>), sep, lead, trail) :
         n \in 0..MaxWords, first \in SeedWords, sep \in Separators,
         lead \in Margins, trail \in Margins}
      \cup
      {MnemonicOf(n, Str(<<"a", "b">>), last, Str(<<" ">>), <<>>, <<>>) :
         n \in 2..MaxWords, last \in SeedWords}

Passphrases ==
  {<<>>, Str(<<"a">>), Str(<<"T", "R", "E", "Z", "O", "R">>), Str(<<" ">>)}

InitSeed ==
  /\ build \in {"debug", "release"}
  /\ IdleKey
  /\ IdleHex
  /\ IdleMnemonic
  /\ mnemonic \in Mnemonics
  /\ passphrase \in Passphrases
  /\ sres = NoSeed
  /\ passphrase2 = <<>>
  /\ sres2 = NoSeed

MnemonicToSeed ==
  /\ sres.tag = "None"
  /\ sres' = mnemonic_to_seed(mnemonic, passphrase)
  /\ UNCHANGED <<mnemonic, passphrase, passphrase2, sres2, keyVars, mnemonicVars, hexVars>>

NextSeed ==
  MnemonicToSeed

SpecSeed ==
  InitSeed /\ [][NextSeed]_vars

\* the places of s where a word starts: a character that is not whitespace,
\* at the start or right after whitespace
WordStarts(s) ==
  {i \in 1..Len(s) : /\ ~IsWhitespace(s[i])
                     /\ (i = 1 \/ IsWhitespace(s[i - 1]))}

\* every character of s is whitespace or an ASCII lowercase letter
OnlyLowercaseWords(s) ==
  \A i \in 1..Len(s) : IsWhitespace(s[i]) \/ s[i] \in 97..122

C6_PasswordIsTrimmedMnemonic ==
  sres.tag = "Ok" =>
    /\ sres.password = Trim(mnemonic)
    /\ sres.salt = <<109, 110, 101, 109, 111, 110, 105, 99>> \o passphrase
    /\ sres.iterations = 2048

\* C6 (amended): the PBKDF2 password is the mnemonic with its leading and
\* trailing whitespace removed and each interior run of whitespace replaced
\* by one space, the salt is "mnemonic" followed by the passphrase, and the
\* iteration count is 2048
C6_PasswordIsSingleSpacedMnemonic ==
  \* the text between the first and the last character of s that is not
  \* whitespace, each run of whitespace in it replaced by one space
  LET SingleSpaced(s) ==
      LET ink == {i \in 1..Len(s) : ~IsWhitespace(s[i])}
          kept == {i \in 1..Len(s) : /\ ink # {}
                                     /\ i >= Min(ink)
                                     /\ i <= Max(ink)
                                     /\ (IsWhitespace(s[i]) => ~IsWhitespace(s[i + 1]))}
          at(k) == CHOOSE i \in kept : Cardinality({j \in kept : j <= i}) = k
      IN  [k \in 1..Cardinality(kept) |-> IF IsWhitespace(s[at(k)]) THEN 32 ELSE s[at(k)]]
  IN  sres.tag = "Ok" =>
        /\ sres.password = SingleSpaced(mnemonic)
        /\ sres.salt = <<109, 110, 101, 109, 111, 110, 105, 99>> \o passphrase
        /\ sres.iterations = 2048

\* a seed made from a mnemonic with whitespace around it and runs of
\* whitespace between its words, and a passphrase
C6_Witness ==
  /\ sres.tag = "Ok"
  /\ passphrase # <<>>
  /\ IsWhitespace(mnemonic[1])
  /\ \E i \in 2..(Len(mnemonic) - 2) :
       /\ ~IsWhitespace(mnemonic[i - 1])
       /\ IsWhitespace(mnemonic[i])
       /\ IsWhitespace(mnemonic[i + 1])
  /\ Len(sres.password) < Len(Trim(mnemonic))

(***************************************************************************)
(* Properties of the master key.                                           *)
(***************************************************************************)
\* C11: every key returned by master_key_from_seed has depth 0, parent
\* fingerprint 00 00 00 00 and child index 0; its private key is the first
\* 32 bytes and its chain code the last 32 bytes of
\* HMAC-SHA-512(key = "Bitcoin seed", data = seed)
C11_MasterKeyFields ==
  mres.tag = "Ok" =>
    LET I == HmacSha512(<<66, 105, 116, 99, 111, 105, 110, 32, 115, 101, 101, 100>>, seed)
    IN  /\ Len(I) = 64
        /\ mres.key.depth = 0
        /\ mres.key.parent_fingerprint = <<0, 0, 0, 0>>
        /\ mres.key.child_index = <<0, 0, 0, 0>>
        /\ mres.key.private_key = [i \in 1..32 |-> I[i]]
        /\ mres.key.chain_code = [i \in 1..32 |-> I[32 + i]]

\* the master key of a 64-byte seed, its two halves different
C11_Witness ==
  /\ Len(seed) = 64
  /\ mres.tag = "Ok"
  /\ mres.key.private_key # mres.key.chain_code

(***************************************************************************)
(* Phrases as a state machine: a caller holds a phrase, validates it and   *)
(* decodes it; or it asks generate_mnemonic for a phrase and validates it. *)
(***************************************************************************)
MaxWordCount == 25

\* /dev/urandom as a call finds it: not to be opened, at its end before the
\* buffer is full, or giving bytes
Devices ==
  {[open |-> FALSE, data |-> <<>>], [open |-> TRUE, data |-> Rep(7, 15)]}
  \cup {[open |-> TRUE, data |-> <<a>> \o Rep(b, 30) \o <<c>>] :
          a \in {0, 128}, b \in {0, 127, 255}, c \in {0, 1}}

PhraseEntropies ==
  {Rep(b, n) : n \in {16, 20, 24, 28, 32}, b \in {0, 127}}

WordsOf(e) ==
  split_whitespace(entropy_to_mnemonic_checked(e).val)

\* for each entropy: the phrases that differ from its valid phrase in the
\* checksum bits of the last word only (the valid one, the 16 lowest values
\* of the bits, the highest, and the valid one with its top checksum bit
\* changed); the valid phrase with its third word replaced; the valid phrase
\* with a word less, a word more (of the wordlist or not), or other whitespace
GivenPhrases ==
  {<<>>, <<32>>, WORDLIST[1]}
  \cup UNION {
    LET ws == WordsOf(e)
        cs == Len(ws) \div 3
        last == binary_search(WORDLIST, ws[Len(ws)])
        valid == last % Pow2(cs)
        values == {c \in 0..(Pow2(cs) - 1) :
                     \/ c < 16
                     \/ c = Pow2(cs) - 1
                     \/ c = valid
                     \/ c = (valid + Pow2(cs - 1)) % Pow2(cs)}
    IN  {Join([ws EXCEPT ![Len(ws)] = WORDLIST[last - valid + c + 1]], <<32>>) : c \in values}
        \cup {Join([ws EXCEPT ![3] = w], <<32>>) :
                w \in {WORDLIST[1], WORDLIST[2], WORDLIST[2048], Str(<<"z", "z", "z">>),
                       Str(<<"A", "a", "a">>), Str(<<"a", "a">>)}}
        \cup { Join(SubSeq(ws, 1, Len(ws) - 1), <<32>>),
               Join(ws \o <<WORDLIST[1]>>, <<32>>),
               Join([SubSeq(ws, 1, Len(ws) - 1) EXCEPT ![3] = Str(<<"z", "z", "z">>)], <<32>>),
               Join(ws \o <<Str(<<"a", "a">>)>>, <<32>>),
               Join(ws, <<32, 32>>),
               Join(ws, <<9>>),
               <<32, 10>> \o Join(ws, <<32>>) \o <<32>> }
    : e \in PhraseEntropies }

InitPhrase ==
  /\ build = "debug"
  /\ IdleKey
  /\ IdleHex
  /\ IdleSeed
  /\ entropy = <<>>
  /\ decoded = NoVal
  /\ validated = NoVal
  /\ word_count = 0
  /\ urandom = [open |-> FALSE, data |-> <<>>]
  /\ phrase \in {OkVal(p) : p \in GivenPhrases}

InitGenerate ==
  /\ build = "debug"
  /\ IdleKey
  /\ IdleHex
  /\ IdleSeed
  /\ entropy = <<>>
  /\ decoded = NoVal
  /\ validated = NoVal
  /\ word_count \in 0..MaxWordCount
  /\ urandom \in Devices
  /\ phrase = NoVal

GenerateMnemonic ==
  /\ phrase.tag = "None"
  /\ phrase' = generate_mnemonic(word_count, urandom)
  /\ UNCHANGED <<entropy, decoded, word_count, urandom, validated, keyVars, seedVars, hexVars>>

ValidateMnemonic ==
  /\ phrase.tag = "Ok"
  /\ validated.tag = "None"
  /\ validated' = validate_mnemonic(phrase.val)
  /\ UNCHANGED <<entropy, phrase, decoded, word_count, urandom, keyVars, seedVars, hexVars>>

NextPhrase ==
  \/ ValidateMnemonic
  \/ MnemonicToEntropy

SpecPhrase ==
  InitPhrase /\ [][NextPhrase]_vars

NextGenerate ==
  \/ GenerateMnemonic
  \/ ValidateMnemonic

SpecGenerate ==
  InitGenerate /\ [][NextGenerate]_vars

(***************************************************************************)
(* Properties of phrases.                                                  *)
(***************************************************************************)
\* the wordlist positions of the words of a phrase, -1 for another word
PhraseIndices(p) ==
  LET ws == split_whitespace(Trim(p))
  IN  [k \in 1..Len(ws) |-> binary_search(WORDLIST, ws[k])]

\* the positions of 12, 15, 18, 21 or 24 words, all of the wordlist
WellFormed(idx) ==
  /\ Len(idx) \in {12, 15, 18, 21, 24}
  /\ \A k \in 1..Len(idx) : idx[k] >= 0

\* bit j (from 0) of the stream of 11-bit word positions, most significant
\* bit first
StreamBit(idx, j) ==
  (idx[(j \div 11) + 1] \div Pow2(10 - (j % 11))) % 2

\* the last Len(idx)/3 bits of the stream, as a number
TrailingChecksum(idx) ==
  idx[Len(idx)] % Pow2(Len(idx) \div 3)

\* the top Len(idx)/3 bits of SHA-256 of the entropy, as a number
ExpectedChecksum(idx) ==
  \* the entropy the positions carry: all bits but the last Len(idx)/3
  LET DecodedEntropy ==
      [k \in 1..((11 * Len(idx) - (Len(idx) \div 3)) \div 8) |->
         128 * StreamBit(idx, 8 * k - 8) + 64 * StreamBit(idx, 8 * k - 7)
         + 32 * StreamBit(idx, 8 * k - 6) + 16 * StreamBit(idx, 8 * k - 5)
         + 8 * StreamBit(idx, 8 * k - 4) + 4 * StreamBit(idx, 8 * k - 3)
         + 2 * StreamBit(idx, 8 * k - 2) + StreamBit(idx, 8 * k - 1)]
  IN  Sha256(DecodedEntropy)[1] \div Pow2(8 - (Len(idx) \div 3))

\* C12: for a phrase with a valid word count and only wordlist words,
\* mnemonic_to_entropy and validate_mnemonic fail with InvalidMnemonic when
\* the trailing checksum bits differ from the top bits of SHA-256 of the
\* decoded entropy, and succeed when they match
C12_ChecksumMismatchIsInvalidMnemonic ==
  LET idx == PhraseIndices(phrase.val)
      match == TrailingChecksum(idx) = ExpectedChecksum(idx)
  IN  (phrase.tag = "Ok" /\ WellFormed(idx)) =>
        /\ decoded.tag # "None" =>
              IF match THEN decoded.tag = "Ok"
              ELSE decoded.tag = "Err" /\ decoded.err = "InvalidMnemonic"
        /\ validated.tag # "None" =>
              IF match THEN validated.tag = "Ok"
              ELSE validated.tag = "Err" /\ validated.err = "InvalidMnemonic"

\* a phrase of 15 wordlist words with other checksum bits, refused twice
C12_Witness ==
  /\ phrase.tag = "Ok"
  /\ decoded.tag = "Err"
  /\ LET idx == PhraseIndices(phrase.val)
     IN  /\ WellFormed(idx)
         /\ Len(idx) = 15
         /\ TrailingChecksum(idx) # ExpectedChecksum(idx)
  /\ decoded.err = "InvalidMnemonic"
  /\ validated.tag = "Err"
  /\ validated.err = "InvalidMnemonic"

\* C13: generate_mnemonic(n) succeeds exactly when n is 12, 15, 18, 21 or
\* 24 and fails with InvalidWordCount otherwise; a phrase it returns has n
\* words, all of the wordlist, and validate_mnemonic accepts it
C13_GenerateSucceedsForValidCounts ==
  phrase.tag # "None" =>
    LET idx == PhraseIndices(phrase.val)
    IN  /\ phrase.tag = "Ok" <=> word_count \in {12, 15, 18, 21, 24}
        /\ word_count \notin {12, 15, 18, 21, 24}
             => (phrase.tag = "Err" /\ phrase.err = "InvalidWordCount")
        /\ phrase.tag = "Ok" => (Len(idx) = word_count /\ \A k \in 1..Len(idx) : idx[k] >= 0)
        /\ validated.tag # "None" => validated.tag = "Ok"

\* C13 (amended): generate_mnemonic(n) fails with InvalidWordCount exactly
\* when n is not 12, 15, 18, 21 or 24; for the other n it fails with
\* KeyGenerationError when the entropy source cannot be opened or read in
\* full, and else returns a phrase of n words, all of the wordlist, which
\* validate_mnemonic accepts
C13_GenerateUnlessEntropySourceFails ==
  phrase.tag # "None" =>
    LET idx == PhraseIndices(phrase.val)
        readable == urandom.open /\ 3 * Len(urandom.data) >= 4 * word_count
    IN  /\ (phrase.tag = "Err" /\ phrase.err = "InvalidWordCount")
             <=> word_count \notin {12, 15, 18, 21, 24}
        /\ (phrase.tag = "Err" /\ phrase.err = "KeyGenerationError")
             <=> (word_count \in {12, 15, 18, 21, 24} /\ ~readable)
        /\ phrase.tag = "Ok" <=> (word_count \in {12, 15, 18, 21, 24} /\ readable)
        /\ phrase.tag = "Ok" => (Len(idx) = word_count /\ \A k \in 1..Len(idx) : idx[k] >= 0)
        /\ validated.tag # "None" => validated.tag = "Ok"

\* a phrase of 24 words made from the bytes read, and accepted
C13_Witness ==
  /\ word_count = 24
  /\ urandom.open
  /\ phrase.tag = "Ok"
  /\ Len(PhraseIndices(phrase.val)) = 24
  /\ validated.tag = "Ok"

(***************************************************************************)
(* Properties of the encoder.                                              *)
(***************************************************************************)
\* C14: entropy_to_mnemonic_checked(E) returns an error when the length of
\* E is not 16, 20, 24, 28 or 32 bytes; for those lengths the stream
\* entropy || checksum is a multiple of 11 bits long and the result has 12,
\* 15, 18, 21 or 24 words, one per chunk, each the wordlist entry at the
\* chunk's index
C14_OneWordPerChunk ==
  \* the number of the k-th 11-bit chunk of the stream, most significant bit
  \* first
  LET ChunkIndex(e, k) ==
      \* bit j (from 0) of the stream entropy || checksum: the bits of each byte
      \* most significant first, then the top bits of the first byte of SHA-256
      \* of the entropy
      LET EncodedBit(j) ==
            IF j < 8 * Len(e)
            THEN (e[(j \div 8) + 1] \div Pow2(7 - (j % 8))) % 2
            ELSE (Sha256(e)[1] \div Pow2(7 - (j - 8 * Len(e)))) % 2
          b(i) == EncodedBit(11 * (k - 1) + i)
      IN  1024 * b(0) + 512 * b(1) + 256 * b(2) + 128 * b(3) + 64 * b(4) + 32 * b(5)
          + 16 * b(6) + 8 * b(7) + 4 * b(8) + 2 * b(9) + b(10)
  IN  phrase.tag # "None" =>
        LET stream == 8 * Len(entropy) + (Len(entropy) \div 4)
            ws == Split(phrase.val, 32)
        IN  IF Len(entropy) \notin {16, 20, 24, 28, 32}
            THEN phrase.tag = "Err" /\ phrase.err = "EncodingError"
            ELSE /\ phrase.tag = "Ok"
                 /\ stream % 11 = 0
                 /\ Len(ws) = stream \div 11
                 /\ Len(ws) = (3 * Len(entropy)) \div 4
                 /\ \A k \in 1..Len(ws) : ws[k] = WORDLIST[ChunkIndex(entropy, k) + 1]

\* a 20-byte entropy with its top bit set, encoded in 15 words
C14_Witness ==
  /\ Len(entropy) = 20
  /\ entropy[1] >= 128
  /\ phrase.tag = "Ok"
  /\ Len(Split(phrase.val, 32)) = 15

\* C15: validate_mnemonic is mnemonic_to_entropy with the result dropped:
\* on every phrase the two succeed together, and when they fail they fail
\* with the same kind of error
C15_ValidateIsDecode ==
  (validated.tag # "None" /\ decoded.tag # "None") =>
    /\ validated.tag = "Ok" <=> decoded.tag = "Ok"
    /\ validated.err = decoded.err

\* a phrase with a word that is not of the wordlist, refused by both
C15_Witness ==
  /\ phrase.tag = "Ok"
  /\ \E k \in 1..Len(PhraseIndices(phrase.val)) : PhraseIndices(phrase.val)[k] < 0
  /\ Len(PhraseIndices(phrase.val)) = 12
  /\ validated.tag = "Err"
  /\ validated.err = "InvalidMnemonic"
  /\ decoded.tag = "Err"

\* C21: validate_mnemonic and mnemonic_to_entropy check the word count
\* before they look up words: a phrase whose number of words is not 12, 15,
\* 18, 21 or 24 fails with InvalidWordCount whatever its words are, and a
\* phrase of such a number of words with a word that is not of the wordlist
\* fails with InvalidMnemonic
C21_WordCountBeforeWords ==
  LET n == Cardinality(WordStarts(phrase.val))
      ws == split_whitespace(phrase.val)
      wordlist == {WORDLIST[i] : i \in 1..Len(WORDLIST)}
      absent == \E k \in 1..Len(ws) : ws[k] \notin wordlist
      counted == n \in {12, 15, 18, 21, 24}
      Checked(r) ==
        r.tag # "None" =>
          /\ ~counted => (r.tag = "Err" /\ r.err = "InvalidWordCount")
          /\ (counted /\ absent) => (r.tag = "Err" /\ r.err = "InvalidMnemonic")
  IN  phrase.tag = "Ok" => (Checked(validated) /\ Checked(decoded))

\* a phrase of 11 words, one of them not of the wordlist, refused by both for
\* its word count
C21_Witness ==
  /\ phrase.tag = "Ok"
  /\ Cardinality(WordStarts(phrase.val)) = 11
  /\ \E k \in 1..11 : PhraseIndices(phrase.val)[k] < 0
  /\ validated.tag = "Err"
  /\ validated.err = "InvalidWordCount"
  /\ decoded.tag = "Err"
  /\ decoded.err = "InvalidWordCount"

(***************************************************************************)
(* Two calls of mnemonic_to_seed on one mnemonic.                          *)
(***************************************************************************)
InitSeedTwice ==
  /\ build = "debug"
  /\ IdleKey
  /\ IdleHex
  /\ IdleMnemonic
  /\ mnemonic \in Mnemonics
  /\ passphrase \in Passphrases
  /\ sres = NoSeed
  /\ passphrase2 = <<>>
  /\ sres2 = NoSeed

MnemonicToSeedAgain(pass) ==
  /\ sres.tag # "None"
  /\ sres2.tag = "None"
  /\ passphrase2' = pass
  /\ sres2' = mnemonic_to_seed(mnemonic, pass)
  /\ UNCHANGED <<mnemonic, passphrase, sres, keyVars, mnemonicVars, hexVars>>

NextSeedTwice ==
  \/ MnemonicToSeed
  \/ \E pass \in Passphrases : MnemonicToSeedAgain(pass)

SpecSeedTwice ==
  InitSeedTwice /\ [][NextSeedTwice]_vars

RECURSIVE trim_start_matches_0x(_)
trim_start_matches_0x(s) ==
  IF Len(s) >= 2 /\ s[1] = 48 /\ s[2] = 120
  THEN trim_start_matches_0x(SubSeq(s, 3, Len(s)))
  ELSE s

\* str::is_char_boundary(o), o a byte offset from 0
is_char_boundary(s, o) ==
  \/ o = 0
  \/ o = Len(s)
  \/ (o < Len(s) /\ s[o + 1] \notin 128..191)

\* char::to_digit(16): -1 for a character that is no hex digit
to_digit_16(c) ==
  IF c \in 48..57 THEN c - 48
  ELSE IF c \in 97..102 THEN c - 87
  ELSE IF c \in 65..70 THEN c - 55
  ELSE -1

\* u8::from_str_radix(src, 16) for src of at most two bytes: the value, or
\* -1 for an error; a leading "+" is a sign, a "-" is no digit of a u8
u8_from_str_radix_16(src) ==
  LET digits == IF Len(src) > 1 /\ src[1] = 43 THEN Tail(src) ELSE src
  IN  IF src = <<>> THEN -1
      ELSE IF \E i \in 1..Len(digits) : to_digit_16(digits[i]) < 0 THEN -1
      ELSE IF Len(digits) = 1 THEN to_digit_16(digits[1])
      ELSE IF Len(digits) = 2 THEN 16 * to_digit_16(digits[1]) + to_digit_16(digits[2])
      ELSE -1

\* hex_to_bytes(hex_str): the pairs are parsed from the left and the first
\* that fails decides; the slice of a pair that cuts a character panics
hex_to_bytes(hex_str) ==
  LET cleaned == trim_start_matches_0x(hex_str)
      npairs == Len(cleaned) \div 2
      cut(k) == ~is_char_boundary(cleaned, 2 * k - 2) \/ ~is_char_boundary(cleaned, 2 * k)
      value(k) == u8_from_str_radix_16(SubSeq(cleaned, 2 * k - 1, 2 * k))
      bad == {k \in 1..npairs : cut(k) \/ value(k) < 0}
  IN  IF Len(cleaned) % 2 # 0 THEN ErrVal("EncodingError")
      ELSE IF bad = {} THEN OkVal([k \in 1..npairs |-> value(k)])
      ELSE IF cut(Min(bad)) THEN [tag |-> "Panic", err |-> "", val |-> <<>>]
      ELSE ErrVal("EncodingError")

\* format!("{:x}", d) for one digit
HexDigit(d) ==
  IF d < 10 THEN 48 + d ELSE 87 + d

\* bytes_to_hex with {:x} for {:02x}: no leading zero
bytes_to_hex_unpadded(bytes) ==
  Concat([k \in 1..Len(bytes) |->
            IF bytes[k] < 16 THEN <<HexDigit(bytes[k])>>
            ELSE <<HexDigit(bytes[k] \div 16), HexDigit(bytes[k] % 16)>>])

\* bytes_to_hex(bytes)
bytes_to_hex(bytes) ==
  Concat([k \in 1..Len(bytes) |-> <<HexDigit(bytes[k] \div 16), HexDigit(bytes[k] % 16)>>])

(***************************************************************************)
(* Hex conversion as a state machine: a caller holds bytes and turns them  *)
(* into hex, or holds a text; it turns the hex or the text into bytes and  *)
(* the bytes into hex again.                                               *)
(***************************************************************************)
MaxRawLen == 3

MaxHexPieces == 4

ByteStrings ==
  LET RawBytes ==
      {0, 9, 10, 15, 16, 171, 255}
  IN  UNION {[1..n -> RawBytes] : n \in 0..MaxRawLen}

HexStrings ==
  LET HexPrefixes ==
        {<<>>, <<48, 120>>, <<48, 120, 48, 120>>, <<48, 88>>}
      \* what a text is made of: the characters 0 a F x + - g and e with
      \* acute accent, a character of two bytes
      HexPieces ==
        {<<48>>, <<97>>, <<70>>, <<120>>, <<43>>, <<45>>, <<103>>, <<195, 169>>}
  IN  {pre \o Concat(ps) : pre \in HexPrefixes,
                           ps \in UNION {[1..n -> HexPieces] : n \in 0..MaxHexPieces}}

InitHex ==
  /\ build = "debug"
  /\ IdleKey
  /\ IdleMnemonic
  /\ IdleSeed
  /\ hres = NoVal
  /\ rehex = NoVal
  /\ \/ /\ raw \in ByteStrings
        /\ hex = NoVal
     \/ /\ raw = <<>>
        /\ hex \in {[tag |-> "Given", err |-> "", val |-> t] : t \in HexStrings}

BytesToHex ==
  /\ hex.tag = "None"
  /\ hex' = OkVal(bytes_to_hex(raw))
  /\ UNCHANGED <<raw, hres, rehex, keyVars, mnemonicVars, seedVars>>

HexToBytes ==
  /\ hex.tag # "None"
  /\ hres.tag = "None"
  /\ hres' = hex_to_bytes(hex.val)
  /\ UNCHANGED <<raw, hex, rehex, keyVars, mnemonicVars, seedVars>>

BytesToHexAgain ==
  /\ hres.tag = "Ok"
  /\ rehex.tag = "None"
  /\ rehex' = OkVal(bytes_to_hex(hres.val))
  /\ UNCHANGED <<raw, hex, hres, keyVars, mnemonicVars, seedVars>>

NextHex ==
  \/ BytesToHex
  \/ HexToBytes
  \/ BytesToHexAgain

SpecHex ==
  InitHex /\ [][NextHex]_vars

\* a text without its "0x" prefix, if it has one
WithoutPrefix(t) ==
  IF Len(t) >= 2 /\ t[1] = 48 /\ t[2] = 120 THEN SubSeq(t, 3, Len(t)) ELSE t

\* an even number of hex digits
ValidHex(t) ==
  LET IsHexDigit(c) ==
      c \in (48..57) \cup (97..102) \cup (65..70)
  IN  /\ Len(t) % 2 = 0
      /\ \A i \in 1..Len(t) : IsHexDigit(t[i])

\* C17: hex_to_bytes returns EncodingError, no bytes and no abort, for
\* every text that after its optional single "0x" prefix has odd length or
\* a character that is no hex digit, a sign such as "+" included
C17_NonHexIsEncodingError ==
  (hex.tag = "Given" /\ hres.tag # "None" /\ ~ValidHex(WithoutPrefix(hex.val)))
    => (hres.tag = "Err" /\ hres.err = "EncodingError")

\* C18: hex_to_bytes(bytes_to_hex(b)) is b for every byte string b; for
\* every text s of an even number of hex digits, with or without a "0x"
\* prefix, bytes_to_hex(hex_to_bytes(s)) is s in lower case without the
\* prefix, two characters per byte
C18_HexRoundTrip ==
  LET Lowercase(t) ==
      [i \in 1..Len(t) |-> IF t[i] \in 65..90 THEN t[i] + 32 ELSE t[i]]
  IN  /\ (hex.tag = "Ok" /\ hres.tag # "None") => (hres.tag = "Ok" /\ hres.val = raw)
      /\ (hex.tag = "Given" /\ ValidHex(WithoutPrefix(hex.val))) =>
           /\ hres.tag # "None" => hres.tag = "Ok"
           /\ rehex.tag # "None" =>
                /\ rehex.val = Lowercase(WithoutPrefix(hex.val))
                /\ Len(rehex.val) = 2 * Len(hres.val)

\* "0x" and hex digits with an upper-case one, to bytes and back
C18_Witness ==
  /\ hex.tag = "Given"
  /\ Len(hex.val) = 6
  /\ hex.val[2] = 120
  /\ \E i \in 3..6 : hex.val[i] = 70
  /\ hres.tag = "Ok"
  /\ Len(hres.val) = 2
  /\ rehex.tag = "Ok"

(***************************************************************************)
(* Base58Check and the xprv form of a key (hd_key.rs).                     *)
(***************************************************************************)
\* b"123456789ABCDEFGHJKLMNPQRSTUVWXYZabcdefghijkmnopqrstuvwxyz"
BASE58_ALPHABET ==
  [i \in 1..58 |-> LET d == i - 1
                   IN  IF d < 9 THEN 49 + d
                       ELSE IF d < 17 THEN 56 + d
                       ELSE IF d < 22 THEN 57 + d
                       ELSE IF d < 33 THEN 58 + d
                       ELSE IF d < 44 THEN 64 + d
                       ELSE 65 + d]

\* the bytes s[lo..hi] after the remainder r0 of the bytes to their left,
\* divided by d: quotient bytes and remainder
RECURSIVE DivRemRange(_, _, _, _, _)
DivRemRange(s, lo, hi, d, r0) ==
  IF lo > hi THEN [q |-> <<>>, r |-> r0]
  ELSE IF lo = hi
  THEN LET v == r0 * 256 + s[lo] IN [q |-> <<v \div d>>, r |-> v % d]
  ELSE LET mid == (lo + hi) \div 2
           a == DivRemRange(s, lo, mid, d, r0)
           b == DivRemRange(s, mid + 1, hi, d, a.r)
       IN  [q |-> a.q \o b.q, r |-> b.r]

\* one turn of the loop "while num > zero" of base58_check_encode
Base58Step(st) ==
  IF st.num = <<>> THEN st
  ELSE LET dr == DivRemRange(st.num, 1, Len(st.num), 58, 0)
       IN  [num |-> StripZeros(dr.q),
            encoded |-> <<BASE58_ALPHABET[dr.r + 1]>> \o st.encoded]

\* the loop to its end, four turns at a time
RECURSIVE Base58Loop(_)
Base58Loop(st) ==
  IF st.num = <<>> THEN st
  ELSE Base58Loop(Base58Step(Base58Step(Base58Step(Base58Step(st)))))

\* base58_check_encode after the checksum is appended, without the leading
\* "1" characters
Base58OfPayloadWithoutOnes(payload) ==
  Base58Loop([num |-> from_bytes_be(payload), encoded |-> <<>>]).encoded

\* base58_check_encode after the checksum is appended: the digits of the
\* payload as a number, then a "1" in front for each leading zero byte
Base58OfPayload(payload) ==
  LET st == Base58Loop([num |-> from_bytes_be(payload), encoded |-> <<>>])
      zeros == Min({i \in 1..Len(payload) : payload[i] # 0} \cup {Len(payload) + 1}) - 1
  IN  Rep(49, zeros) \o st.encoded

base58_check_encode(data) ==
  LET hash1 == Sha256(data)
      hash2 == Sha256(hash1)
      checksum == SubSeq(hash2, 1, 4)
      payload == data \o checksum
  IN  Base58OfPayload(payload)

\* to_string without the 0x00 in front of the private key
to_string_without_key_prefix(self) ==
  base58_check_encode(<<4, 136, 173, 228>> \o <<self.depth>> \o self.parent_fingerprint
                      \o self.child_index \o self.chain_code \o self.private_key)

\* ExtendedKey::to_string(&self)
to_string(self) ==
  base58_check_encode(<<4, 136, 173, 228>> \o <<self.depth>> \o self.parent_fingerprint
                      \o self.child_index \o self.chain_code
                      \o <<0>> \o self.private_key)

(***************************************************************************)
(* The caller of the key tree that also serialises the key it holds.       *)
(***************************************************************************)
XprvSeeds ==
  {Rep(b, n) : n \in {16, 64}, b \in {0, 1, 2}}

XprvPaths ==
  RebasePaths \cup {LongPath(LongPathLen - 1)}

InitXprv ==
  /\ build = "debug"
  /\ IdleKey
  /\ IdleHex
  /\ IdleMnemonic
  /\ IdleSeed

\* the caller serialises the key it holds
KeyToString ==
  /\ mres.tag = "Ok"
  /\ res.tag = "None"
  /\ xprv = <<>>
  /\ xprv' = to_string(key)
  /\ UNCHANGED <<build, seed, mres, key, steps, path, res, rebases,
                 buffer, b58, mnemonicVars, seedVars, hexVars>>

\* a master key, a derived key in its place once, and the text of either
NextXprv ==
  \/ \E s \in XprvSeeds : xprv = <<>> /\ mres.tag = "None" /\ MasterKeyFromSeed(s)
  \/ \E p \in XprvPaths : xprv = <<>> /\ DerivePath(p)
  \/ rebases = 0 /\ UseDerived
  \/ KeyToString

SpecXprv ==
  InitXprv /\ [][NextXprv]_vars

\* the bytes s[lo..hi] times m plus the carry c from the bytes to their
\* right: product bytes and the carry to the left
RECURSIVE MulAddRange(_, _, _, _, _)
MulAddRange(s, lo, hi, m, c) ==
  IF lo > hi THEN [v |-> <<>>, c |-> c]
  ELSE IF lo = hi
  THEN LET t == s[lo] * m + c IN [v |-> <<t % 256>>, c |-> t \div 256]
  ELSE LET mid == (lo + hi) \div 2
           b == MulAddRange(s, mid + 1, hi, m, c)
           a == MulAddRange(s, lo, mid, m, b.c)
       \* the right half first: the left half takes its carry
       IN  IF b.c >= 0 THEN [v |-> a.v \o b.v, c |-> a.c] ELSE b

DigitOf(c) ==
  (CHOOSE i \in 1..58 : BASE58_ALPHABET[i] = c) - 1

\* the number that the characters str[lo..hi] continue from acc, a number
\* of fixed width
RECURSIVE Base58Value(_, _, _, _)
Base58Value(str, lo, hi, acc) ==
  IF lo > hi THEN acc
  ELSE IF lo = hi THEN MulAddRange(acc, 1, Len(acc), 58, DigitOf(str[lo])).v
  ELSE LET mid == (lo + hi) \div 2
           left == Base58Value(str, lo, mid, acc)
       IN  IF left = <<>> THEN left ELSE Base58Value(str, mid + 1, hi, left)

\* the bytes a Base58 text stands for: one zero byte for each leading "1",
\* then the number
Base58Decode(str) ==
  LET ones == Min({i \in 1..Len(str) : str[i] # 49} \cup {Len(str) + 1}) - 1
  IN  Rep(0, ones) \o StripZeros(Base58Value(str, 1, Len(str), Rep(0, Len(str))))

\* C19: to_string writes the 78 bytes version 04 88 AD E4, depth, parent
\* fingerprint, child index (big-endian), chain code, 0x00, private key,
\* appends the first 4 bytes of their double SHA-256 (82 bytes), and the
\* Base58 text of the 82 bytes has exactly 111 characters
C19_XprvIs111CharsOf82Bytes ==
  LET InAlphabet(c) ==
      \E i \in 1..58 : BASE58_ALPHABET[i] = c
  IN  xprv # <<>> =>
        /\ Len(xprv) = 111
        /\ \A i \in 1..Len(xprv) : InAlphabet(xprv[i])
        /\ LET bytes == Base58Decode(xprv)
           IN  /\ Len(bytes) = 82
               /\ SubSeq(bytes, 1, 4) = <<4, 136, 173, 228>>
               /\ bytes[5] = key.depth
               /\ SubSeq(bytes, 6, 9) = key.parent_fingerprint
               /\ SubSeq(bytes, 10, 13) = key.child_index
               /\ SubSeq(bytes, 14, 45) = key.chain_code
               /\ bytes[46] = 0
               /\ SubSeq(bytes, 47, 78) = key.private_key
               /\ SubSeq(bytes, 79, 82) = SubSeq(Sha256(Sha256(SubSeq(bytes, 1, 78))), 1, 4)

\* the xprv text of a hardened child
C19_Witness ==
  /\ xprv # <<>>
  /\ Len(xprv) = 111
  /\ key.depth >= 1
  /\ key.child_index[1] >= 128

(***************************************************************************)
(* base58_check_encode on checksummed buffers of any content.              *)
(***************************************************************************)
MaxPayloadLen == 5

\* the checksummed buffers: at least the 4 checksum bytes, of bytes at the
\* edges of a byte and around the base
Payloads ==
  LET bytes == {0, 1, 57, 58, 255}
  IN  UNION {[1..n -> bytes] : n \in 4..MaxPayloadLen}

InitBase58 ==
  /\ build = "debug"
  /\ IdleKey
  /\ IdleHex
  /\ IdleMnemonic
  /\ IdleSeed

\* base58_check_encode from the point where its checksummed buffer is p
Base58CheckEncode(p) ==
  /\ buffer = <<>>
  /\ buffer' = p
  /\ b58' = Base58OfPayload(p)
  /\ UNCHANGED <<build, seed, mres, key, steps, path, res, rebases, xprv,
                 mnemonicVars, seedVars, hexVars>>

NextBase58 ==
  \E p \in Payloads : Base58CheckEncode(p)

SpecBase58 == InitBase58 /\ [][NextBase58]_vars

\* C22: the text of base58_check_encode is one "1" for each leading zero
\* byte of the checksummed buffer, followed by the base-58 digits of the
\* buffer read as a big-endian number, most significant first, the first of
\* them never the digit "1"; an all-zero buffer gives only "1" characters;
\* and the buffer can be read back from the text, so distinct buffers give
\* distinct texts
C22_OnesThenDigits ==
  LET zeros == Min({i \in 1..Len(buffer) : buffer[i] # 0} \cup {Len(buffer) + 1}) - 1
      digits == SubSeq(b58, zeros + 1, Len(b58))
      value == Base58Value(digits, 1, Len(digits), Rep(0, Len(buffer)))
  IN  buffer # <<>> =>
        /\ Len(b58) >= zeros
        /\ \A i \in 1..zeros : b58[i] = 49
        /\ \A i \in 1..Len(digits) : \E d \in 1..58 : digits[i] = BASE58_ALPHABET[d]
        /\ digits # <<>> => digits[1] # 49
        /\ value = buffer
        /\ zeros = Len(buffer) => b58 = Rep(49, Len(buffer))
        /\ Base58Decode(b58) = buffer

\* a buffer with leading zero bytes and a number after them
C22_Witness ==
  /\ Len(buffer) = 5
  /\ buffer[1] = 0
  /\ buffer[2] = 0
  /\ buffer[3] = 58
  /\ Len(b58) > 2
  /\ b58[1] = 49
  /\ b58[2] = 49

(***************************************************************************)
(* derive_path as a fold of derive_child.                                  *)
(***************************************************************************)
\* C20: a successful derive_path is derive_child applied once per segment
\* of the path, left to right: the depth of the result is the depth of the
\* root plus the number of segments, its child_index is the index of the
\* last segment (the integer, plus 2^31 after ' or h, both markers giving
\* the same key), and its parent_fingerprint is the fingerprint of the key
\* of the path without its last segment
C20_DerivePathFoldsDeriveChild ==
  LET \* the child index a segment asks for: its integer, plus 2^31 with a
      \* marker
      SegmentIndex(c) ==
        LET v == ParseU32(IndexText(c)).val
        IN  IF HasMarker(c) THEN <<(v[1] + 128) % 256, v[2], v[3], v[4]>> ELSE v
      \* a path with the hardening marker ' for each h and h for each '
      SwapMarkers(p) ==
        [i \in 1..Len(p) |-> IF p[i] = 39 THEN 104 ELSE IF p[i] = 104 THEN 39 ELSE p[i]]
      \* a path without its last "/" and the segment after it
      WithoutLastSegment(p) ==
        LET t == Trim(p)
        IN  SubSeq(t, 1, Max({i \in 1..Len(t) : t[i] = 47}) - 1)
      cs == BodyComponents(path)
  IN  res.tag = "Ok" =>
        /\ res.key.depth = key.depth + Len(cs)
        /\ derive_path(key, SwapMarkers(path), build).key = res.key
        /\ cs # <<>> =>
             /\ res.key.child_index = SegmentIndex(Last(cs))
             /\ LET parent == derive_path(key, WithoutLastSegment(path), build)
                IN  /\ parent.tag = "Ok"
                    /\ res.key.parent_fingerprint
                         = fingerprint_from_public(get_public_key(parent.key))

(***************************************************************************)
(* derive_path in two calls and in one.                                    *)
(***************************************************************************)
\* C23: derive_path composes and leaves its receiver unchanged: for a key k
\* and segment lists P and Q, derive_path on "m/Q" of the result of
\* derive_path(k, "m/P") has the same outcome as derive_path(k, "m/P/Q"),
\* the same five fields when it succeeds and a failure in both cases
\* otherwise, and a call of derive_path or to_string leaves k as it was
C23_DerivePathComposes ==
  [][LET \* "m" followed by "/" and a segment for each segment of a list
         IsMPath(p) ==
           /\ p # <<>>
           /\ Trim(p) = p
           /\ p[1] = 109
           /\ Len(p) > 1 => p[2] = 47
         SameOutcome(a, b) ==
           \/ a.tag = "Ok" /\ b.tag = "Ok" /\ a.key = b.key
           \/ a.tag # "Ok" /\ b.tag # "Ok"
         \* the result in hand, followed up with each q, against one call
         Composes ==
           (res.tag # "None" /\ IsMPath(path)) =>
             \A q \in RebasePaths :
               LET second == IF res.tag = "Ok" THEN derive_path(res.key, q, build) ELSE res
                   joined == derive_path(key, path \o Tail(q), build)
               IN  SameOutcome(second, joined)
         ReceiverKept ==
           /\ (res.tag = "None" /\ res'.tag # "None") => key' = key
           /\ (xprv = <<>> /\ xprv' # <<>>) => key' = key
     IN  Composes /\ ReceiverKept]_vars

====
